---- MODULE Spec2Model ----
(***************************************************************************)
(* A model of the two scripts of the repository:                           *)
(*   extract_image_metadata.py      (the base variant, "base")             *)
(*   image_upload_and_metadata.py   (the upload variant, "upload")         *)
(*                                                                         *)
(* Strings are sequences of one-character strings; the constant pieces of  *)
(* an f-string are kept whole.  An optional value (Python None or a value) *)
(* is a sequence of length 0 or 1.  A number is an exact rational          *)
(* [n |-> numerator, d |-> denominator] in lowest terms, d > 0; the        *)
(* rounding of IEEE doubles is not modelled.                               *)
(***************************************************************************)
EXTENDS Integers, Sequences, FiniteSets, TLC

VARIABLES
  \* ---- one program invocation after another (both variants) ----
  variant,        \* which script is run: "base" or "upload"
  runs,           \* number of invocations started so far
  clock,          \* what datetime.now() returns during the current run
  pc,             \* position of the running script
  listing,        \* os.listdir(folder_path) of the current run
  idx,            \* number of entries of listing the for loop has taken
  metadata,       \* upload variant: the dictionary of the file in progress
  metadata_list,  \* the records accumulated by the current run
  error_log,      \* upload variant: the in-memory error log
  success_count,
  failure_count,
  fs,             \* the working directory: file name -> contents
  calls,          \* the calls made by the current run to Image.open/_getexif
                  \* and blob.upload_from_filename, with their outcome
  \* ---- the extraction of one file, one loop iteration at a time ----
  ex_pc,          \* "open", "loop", "returned"
  ex_seen,        \* tag ids of exif_data already iterated
  ex_item,        \* the loop variables (tag_id, value) of the last iteration
  ex_st,          \* the locals gps_info, latitude, longitude, date, time
  ex_out,         \* the outcome for this file
  \* ---- one call of dms_to_decimal ----
  dms_in,         \* the arguments (dms, ref)
  dms_out         \* <<>> before the call, <<result>> after it

orchVars == <<variant, runs, clock, pc, listing, idx, metadata, metadata_list,
              error_log, success_count, failure_count, fs, calls>>
exVars   == <<ex_pc, ex_seen, ex_item, ex_st, ex_out>>
dmsVars  == <<dms_in, dms_out>>
vars     == <<orchVars, exVars, dmsVars>>

None == <<>>
Some(x) == <<x>>

----------------------------------------------------------------------------
(* Bounds of the model *)

MaxDeg == 10        \* degrees range over 0..MaxDeg
MaxMin == 61        \* minutes range over 0..MaxMin (60 and more are not rejected)
MaxTags == 3        \* entries of one exif dictionary
MaxEntries == 2     \* entries of one directory listing
MaxRuns == 2        \* consecutive invocations of a script

----------------------------------------------------------------------------
(* Exact rational arithmetic standing for Python float arithmetic *)

Abs(x) == IF x < 0 THEN -x ELSE x

RECURSIVE GCD(_, _)
GCD(a, b) == IF b = 0 THEN a ELSE GCD(b, a % b)

Rat(n, d) == LET g == GCD(Abs(n), d) IN [n |-> n \div g, d |-> d \div g]
RatAdd(a, b) == Rat(a.n * b.d + b.n * a.d, a.d * b.d)
RatDivInt(a, k) == Rat(a.n, a.d * k)
RatNeg(a) == [n |-> -a.n, d |-> a.d]

----------------------------------------------------------------------------
(* dms_to_decimal: the same function in both scripts *)

\* A call either raises (exc) or returns val.
Raised == [exc |-> TRUE, val |-> [n |-> 0, d |-> 1]]
Returned(v) == [exc |-> FALSE, val |-> v]

\* dms_to_decimal negating for 'S' only.
dms_to_decimal_bug(dms, ref) ==
  IF Len(dms) # 3 THEN Raised
  ELSE LET degrees == dms[1]
           minutes == dms[2]
           seconds == dms[3]
           decimal == RatAdd(RatAdd(degrees, RatDivInt(minutes, 60)),
                             RatDivInt(seconds, 3600))
       IN  IF ref \in {"S"} THEN Returned(RatNeg(decimal))
           ELSE Returned(decimal)

\* image_upload_and_metadata.py.  The unpacking of dms raises ValueError
\* unless dms has exactly three elements.
dms_to_decimal(dms, ref) ==
  IF Len(dms) # 3 THEN Raised
  ELSE LET degrees == dms[1]
           minutes == dms[2]
           seconds == dms[3]
           decimal == RatAdd(RatAdd(degrees, RatDivInt(minutes, 60)),
                             RatDivInt(seconds, 3600))
       IN  IF ref \in {"S", "W"} THEN Returned(RatNeg(decimal))
           ELSE Returned(decimal)

\* extract_image_metadata.py
dms_to_decimal_base(dms, ref) ==
  IF Len(dms) # 3 THEN Raised
  ELSE LET degrees == dms[1]
           minutes == dms[2]
           seconds == dms[3]
           decimal == RatAdd(RatAdd(degrees, RatDivInt(minutes, 60)),
                             RatDivInt(seconds, 3600))
       IN  IF ref \in {"S", "W"} THEN Returned(RatNeg(decimal))
           ELSE Returned(decimal)

Variants == {"base", "upload"}
Refs == {"N", "S", "E", "W"}
Degs == {Rat(k, 1) : k \in 0..MaxDeg}
Mins == {Rat(k, 1) : k \in 0..MaxMin}
Secs == {Rat(0, 1), Rat(1, 1), Rat(30, 1), Rat(61, 2), Rat(3600, 1)}

----------------------------------------------------------------------------
(* datetime.strptime(value, '%Y:%m:%d %H:%M:%S') and strftime *)

DigitVal == ("0" :> 0) @@ ("1" :> 1) @@ ("2" :> 2) @@ ("3" :> 3) @@ ("4" :> 4)
            @@ ("5" :> 5) @@ ("6" :> 6) @@ ("7" :> 7) @@ ("8" :> 8) @@ ("9" :> 9)
DigitChar == <<"0", "1", "2", "3", "4", "5", "6", "7", "8", "9">>

IsDigitAt(s, p) == p >= 1 /\ p <= Len(s) /\ s[p] \in DOMAIN DigitVal
IsCharAt(s, p, c) == p >= 1 /\ p <= Len(s) /\ s[p] = c

\* The state of a parse: whether the value matched the format so far, the
\* position of the next character, and the numbers read.
ParseStart == [ok |-> TRUE, next |-> 1, vals |-> <<>>]
ParseFail == [ok |-> FALSE, next |-> 0, vals |-> <<>>]

\* %Y is \d\d\d\d
ParseYear(s, r) ==
  IF r.ok /\ \A k \in 0..3 : IsDigitAt(s, r.next + k)
  THEN [ok |-> TRUE, next |-> r.next + 4,
        vals |-> Append(r.vals,
                        DigitVal[s[r.next]] * 1000 + DigitVal[s[r.next + 1]] * 100
                        + DigitVal[s[r.next + 2]] * 10 + DigitVal[s[r.next + 3]])]
  ELSE ParseFail

\* %m, %d, %H, %M, %S: the two-digit alternatives of the directive's pattern
\* are tried first (values lo2..hi2, written with two digits), then its
\* one-digit alternative (values lo1..9).
ParseField(s, r, lo2, hi2, lo1) ==
  IF r.ok /\ IsDigitAt(s, r.next) /\ IsDigitAt(s, r.next + 1)
     /\ DigitVal[s[r.next]] * 10 + DigitVal[s[r.next + 1]] >= lo2
     /\ DigitVal[s[r.next]] * 10 + DigitVal[s[r.next + 1]] <= hi2
  THEN [ok |-> TRUE, next |-> r.next + 2,
        vals |-> Append(r.vals, DigitVal[s[r.next]] * 10 + DigitVal[s[r.next + 1]])]
  ELSE IF r.ok /\ IsDigitAt(s, r.next) /\ DigitVal[s[r.next]] >= lo1
  THEN [ok |-> TRUE, next |-> r.next + 1, vals |-> Append(r.vals, DigitVal[s[r.next]])]
  ELSE ParseFail

\* A literal character of the format.
ParseLit(s, r, c) ==
  IF r.ok /\ IsCharAt(s, r.next, c) THEN [r EXCEPT !.next = r.next + 1] ELSE ParseFail

\* The blank of the format is \s+ : one blank or more.
RECURSIVE SkipBlanks(_, _)
SkipBlanks(s, p) == IF IsCharAt(s, p, " ") THEN SkipBlanks(s, p + 1) ELSE p
ParseBlanks(s, r) ==
  IF r.ok /\ IsCharAt(s, r.next, " ")
  THEN [r EXCEPT !.next = SkipBlanks(s, r.next)] ELSE ParseFail

IsLeap(y) == (y % 4 = 0 /\ y % 100 # 0) \/ y % 400 = 0
DaysInMonth(y, m) ==
  IF m = 2 THEN (IF IsLeap(y) THEN 29 ELSE 28)
  ELSE IF m \in {4, 6, 9, 11} THEN 30 ELSE 31

\* The value against the format '%Y:%m:%d %H:%M:%S'.
ParseFormat(s) ==
  ParseField(s, ParseLit(s, ParseField(s, ParseLit(s, ParseField(s,
    ParseBlanks(s, ParseField(s, ParseLit(s, ParseField(s, ParseLit(s,
      ParseYear(s, ParseStart),
      ":"), 1, 12, 1), ":"), 1, 31, 1)),
    0, 23, 0), ":"), 0, 59, 0), ":"), 0, 61, 0)

\* [ok |-> FALSE] stands for ValueError.  The whole value must be consumed,
\* and the numbers read must make a date and time datetime accepts.
NoDateTime == [ok |-> FALSE, Y |-> 0, m |-> 0, d |-> 0, H |-> 0, M |-> 0, S |-> 0]
MakeDateTime(s, r) ==
  IF r.ok /\ r.next = Len(s) + 1
     /\ r.vals[1] >= 1 /\ r.vals[3] <= DaysInMonth(r.vals[1], r.vals[2])
     /\ r.vals[6] <= 59
  THEN [ok |-> TRUE, Y |-> r.vals[1], m |-> r.vals[2], d |-> r.vals[3],
        H |-> r.vals[4], M |-> r.vals[5], S |-> r.vals[6]]
  ELSE NoDateTime

strptime(s) == MakeDateTime(s, ParseFormat(s))

Pad2(k) == <<DigitChar[(k \div 10) + 1], DigitChar[(k % 10) + 1]>>
Pad4(k) == <<DigitChar[(k \div 1000) + 1], DigitChar[((k \div 100) % 10) + 1]>>
           \o Pad2(k % 100)

\* strftime('%m/%d/%Y') and strftime('%H:%M:%S')
strftime_date(t) == Pad2(t.m) \o <<"/">> \o Pad2(t.d) \o <<"/">> \o Pad4(t.Y)
strftime_time(t) == Pad2(t.H) \o <<":">> \o Pad2(t.M) \o <<":">> \o Pad2(t.S)

----------------------------------------------------------------------------
(* The embedded tag dictionary and the per-tag step of the extraction loop *)

\* PIL.ExifTags.TAGS and GPSTAGS, restricted to the ids the model uses.
TAGS == (34853 :> "GPSInfo") @@ (306 :> "DateTime")
        @@ (36867 :> "DateTimeOriginal") @@ (36868 :> "DateTimeDigitized")
        @@ (271 :> "Make")
GPSTAGS == (1 :> "GPSLatitudeRef") @@ (2 :> "GPSLatitude")
           @@ (3 :> "GPSLongitudeRef") @@ (4 :> "GPSLongitude")

\* TAGS.get(tag_id, tag_id) and GPSTAGS.get(key, key): an unknown id is
\* its own name.
TAGS_get(tag_id) == IF tag_id \in DOMAIN TAGS THEN TAGS[tag_id] ELSE ToString(tag_id)
GPSTAGS_get(key) == IF key \in DOMAIN GPSTAGS THEN GPSTAGS[key] ELSE ToString(key)

\* dict.get(key): None when the key is missing.
Get(dict, key) == IF key \in DOMAIN dict THEN Some(dict[key]) ELSE None

\* Truth value of an optional tuple or list, and of an optional string:
\* None, () and '' are false.
TruthyTuple(o) == Len(o) > 0 /\ Len(o[1]) > 0
TruthyStr(o) == Len(o) > 0 /\ o[1] # ""

\* The locals of the extraction before the loop.
InitLocals == [gps_info |-> <<>>, latitude |-> None, longitude |-> None,
               date |-> None, time_value |-> None]

\* The outcome of one loop iteration: the exception escapes (exc) or the
\* locals are st.
Escapes(st) == [exc |-> TRUE, st |-> st]
Continues(st) == [exc |-> FALSE, st |-> st]

\* for key in value: gps_info[GPSTAGS.get(key, key)] = value[key]
DecodeGps(gps_info, value) ==
  LET names == {GPSTAGS_get(key) : key \in DOMAIN value}
  IN  [name \in (DOMAIN gps_info) \cup names |->
         IF name \in names
         THEN value[CHOOSE key \in DOMAIN value : GPSTAGS_get(key) = name]
         ELSE gps_info[name]]

(* image_upload_and_metadata.py, extract_image_metadata *)

\* GpsStep testing the sub-fields of each axis on their own.
GpsStep_bug(st, value) ==
  LET gps_info == DecodeGps(st.gps_info, value)
      gps_latitude == Get(gps_info, "GPSLatitude")
      gps_latitude_ref == Get(gps_info, "GPSLatitudeRef")
      gps_longitude == Get(gps_info, "GPSLongitude")
      gps_longitude_ref == Get(gps_info, "GPSLongitudeRef")
      st1 == [st EXCEPT !.gps_info = gps_info]
      lat == dms_to_decimal(gps_latitude[1], gps_latitude_ref[1])
      lon == dms_to_decimal(gps_longitude[1], gps_longitude_ref[1])
      st2 == IF TruthyTuple(gps_latitude) /\ TruthyStr(gps_latitude_ref)
             THEN [st1 EXCEPT !.latitude = Some(lat.val)] ELSE st1
      st3 == IF TruthyTuple(gps_longitude) /\ TruthyStr(gps_longitude_ref)
             THEN [st2 EXCEPT !.longitude = Some(lon.val)] ELSE st2
  IN  IF TruthyTuple(gps_latitude) /\ TruthyStr(gps_latitude_ref) /\ lat.exc
      THEN Escapes(st1)
      ELSE IF TruthyTuple(gps_longitude) /\ TruthyStr(gps_longitude_ref) /\ lon.exc
      THEN Escapes(st2)
      ELSE Continues(st3)

\* The branch of the loop body for the GPSInfo entry: the sub-tags are
\* decoded, and the coordinates converted if all four sub-fields are true.
GpsStep(st, value) ==
  LET gps_info == DecodeGps(st.gps_info, value)
      gps_latitude == Get(gps_info, "GPSLatitude")
      gps_latitude_ref == Get(gps_info, "GPSLatitudeRef")
      gps_longitude == Get(gps_info, "GPSLongitude")
      gps_longitude_ref == Get(gps_info, "GPSLongitudeRef")
      st1 == [st EXCEPT !.gps_info = gps_info]
  IN  IF TruthyTuple(gps_latitude) /\ TruthyStr(gps_latitude_ref)
         /\ TruthyTuple(gps_longitude) /\ TruthyStr(gps_longitude_ref)
      THEN LET lat == dms_to_decimal(gps_latitude[1], gps_latitude_ref[1])
               lon == dms_to_decimal(gps_longitude[1], gps_longitude_ref[1])
           IN  IF lat.exc THEN Escapes(st1)
               ELSE IF lon.exc
               THEN Escapes([st1 EXCEPT !.latitude = Some(lat.val)])
               ELSE Continues([st1 EXCEPT !.latitude = Some(lat.val),
                                          !.longitude = Some(lon.val)])
      ELSE Continues(st1)

\* DateStep clearing only the date on ValueError.
DateStep_bug(st, value) ==
  IF ~value.isstr THEN Escapes(st)
  ELSE LET date_time_obj == strptime(value.chars)
       IN  IF date_time_obj.ok
           THEN Continues([st EXCEPT !.date = Some(strftime_date(date_time_obj)),
                                     !.time_value = Some(strftime_time(date_time_obj))])
           ELSE Continues([st EXCEPT !.date = None])

\* The branch for a date/time tag.  A value is [isstr, chars]: strptime
\* raises TypeError, which "except ValueError" lets through, when the value
\* is not a str; on ValueError date and time are set to None.
DateStep(st, value) ==
  IF ~value.isstr THEN Escapes(st)
  ELSE LET date_time_obj == strptime(value.chars)
       IN  IF date_time_obj.ok
           THEN Continues([st EXCEPT !.date = Some(strftime_date(date_time_obj)),
                                     !.time_value = Some(strftime_time(date_time_obj))])
           ELSE Continues([st EXCEPT !.date = None, !.time_value = None])

\* The body of "for tag_id, value in exif_data.items()".
TagStep(st, tag_id, value) ==
  IF TAGS_get(tag_id) = "GPSInfo" THEN GpsStep(st, value)
  ELSE IF TAGS_get(tag_id) \in {"DateTime", "DateTimeOriginal", "DateTimeDigitized"}
  THEN DateStep(st, value)
  ELSE Continues(st)

(* extract_image_metadata.py, extract_metadata: the same loop body *)

\* The branch for the GPSInfo entry.
GpsStepBase(st, value) ==
  LET gps_info == DecodeGps(st.gps_info, value)
      gps_latitude == Get(gps_info, "GPSLatitude")
      gps_latitude_ref == Get(gps_info, "GPSLatitudeRef")
      gps_longitude == Get(gps_info, "GPSLongitude")
      gps_longitude_ref == Get(gps_info, "GPSLongitudeRef")
      st1 == [st EXCEPT !.gps_info = gps_info]
  IN  IF TruthyTuple(gps_latitude) /\ TruthyStr(gps_latitude_ref)
         /\ TruthyTuple(gps_longitude) /\ TruthyStr(gps_longitude_ref)
      THEN LET lat == dms_to_decimal_base(gps_latitude[1], gps_latitude_ref[1])
               lon == dms_to_decimal_base(gps_longitude[1], gps_longitude_ref[1])
           IN  IF lat.exc THEN Escapes(st1)
               ELSE IF lon.exc
               THEN Escapes([st1 EXCEPT !.latitude = Some(lat.val)])
               ELSE Continues([st1 EXCEPT !.latitude = Some(lat.val),
                                          !.longitude = Some(lon.val)])
      ELSE Continues(st1)

\* The branch for a date/time tag.
DateStepBase(st, value) ==
  IF ~value.isstr THEN Escapes(st)
  ELSE LET date_time_obj == strptime(value.chars)
       IN  IF date_time_obj.ok
           THEN Continues([st EXCEPT !.date = Some(strftime_date(date_time_obj)),
                                     !.time_value = Some(strftime_time(date_time_obj))])
           ELSE Continues([st EXCEPT !.date = None, !.time_value = None])

\* The body of "for tag_id, value in exif_data.items()".
TagStepBase(st, tag_id, value) ==
  IF TAGS_get(tag_id) = "GPSInfo" THEN GpsStepBase(st, value)
  ELSE IF TAGS_get(tag_id) \in {"DateTime", "DateTimeOriginal", "DateTimeDigitized"}
  THEN DateStepBase(st, value)
  ELSE Continues(st)

\* The loop over exif_data.items(), from entry i on, r being the outcome of
\* the iterations before: it stops at the first iteration an exception
\* escapes from.
RECURSIVE RunTags(_, _, _)
RunTags(r, exif, i) ==
  IF r.exc \/ i > Len(exif) THEN r
  ELSE RunTags(TagStep(r.st, exif[i].tag_id, exif[i].value), exif, i + 1)

RECURSIVE RunTagsBase(_, _, _)
RunTagsBase(r, exif, i) ==
  IF r.exc \/ i > Len(exif) THEN r
  ELSE RunTagsBase(TagStepBase(r.st, exif[i].tag_id, exif[i].value), exif, i + 1)

----------------------------------------------------------------------------
(* The extraction of one file *)

\* dict.update(other)
Update(dict, other) ==
  [k \in (DOMAIN dict) \cup (DOMAIN other) |->
     IF k \in DOMAIN other THEN other[k] ELSE dict[k]]

\* An image file: opening it or reading its dictionary raises, or _getexif()
\* returns exif, a sequence of entries [tag_id, value] in dictionary order
\* (the empty sequence for None and for an empty dictionary).

\* image_upload_and_metadata.py: the dictionary extract_image_metadata returns
\* at the end of its try block, and the one its except clause returns.
ExtractReturn(st, filename) ==
  [Filename |-> filename, Latitude |-> st.latitude, Longitude |-> st.longitude,
   Date |-> st.date, Time |-> st.time_value]
ExtractExcept(filename) == [Filename |-> filename]

extract_image_metadata(image, filename) ==
  IF image.raises THEN ExtractExcept(filename)
  ELSE LET r == RunTags(Continues(InitLocals), image.exif, 1)
       IN  IF r.exc THEN ExtractExcept(filename)
           ELSE ExtractReturn(r.st, filename)

\* The dictionary the upload loop starts a file with, and that dictionary
\* after the extraction step of the loop.
InitMetadata(filename) ==
  [Filename |-> filename, Latitude |-> None, Longitude |-> None,
   Date |-> None, Time |-> None, ImageURL |-> None]
ExtractedMetadata(extracted, filename) == Update(InitMetadata(filename), extracted)

\* extract_image_metadata.py: what one iteration of the file loop appends to
\* metadata_list: exif_dict, or nothing when an exception reached the
\* "except Exception" of the loop body.
BaseRecord(st, filename) ==
  [Filename |-> filename, Latitude |-> st.latitude, Longitude |-> st.longitude,
   Date |-> st.date, Time |-> st.time_value]
BaseNoExif(filename) ==
  [Filename |-> filename, Latitude |-> None, Longitude |-> None,
   Date |-> None, Time |-> None]
BaseExcept == <<>>

extract_metadata_file(image, filename) ==
  IF image.raises THEN BaseExcept
  ELSE IF image.exif = <<>> THEN <<BaseNoExif(filename)>>
  ELSE LET r == RunTagsBase(Continues(InitLocals), image.exif, 1)
       IN  IF r.exc THEN BaseExcept
           ELSE <<BaseRecord(r.st, filename)>>

----------------------------------------------------------------------------
(* Values the model draws tag values from *)

GoodStamp == <<"2", "0", "2", "3", ":", "0", "7", ":", "0", "4", " ", "1", "0", ":", "1", "5", ":", "3", "0">>
ShortStamp == <<"2", "0", "2", "4", ":", "2", ":", "2", "9", " ", " ", "9", ":", "5", ":", "3">>
NotADate == <<"n", "o", "t", "-", "a", "-", "d", "a", "t", "e">>
BadDay == <<"2", "0", "2", "3", ":", "0", "2", ":", "3", "0", " ", "1", "0", ":", "1", "5", ":", "3", "0">>
DateOnly == <<"2", "0", "2", "3", ":", "0", "7", ":", "0", "4">>
Trailing == <<"2", "0", "2", "3", ":", "0", "7", ":", "0", "4", " ", "1", "0", ":", "1", "5", ":", "3", "0", "Z">>

Str(chars) == [isstr |-> TRUE, chars |-> chars]
Bytes(chars) == [isstr |-> FALSE, chars |-> chars]
DateValues == {Str(GoodStamp), Str(ShortStamp), Str(NotADate), Str(BadDay),
               Str(DateOnly), Str(Trailing), Str(<<>>), Bytes(GoodStamp)}

Dms1 == <<Rat(10, 1), Rat(30, 1), Rat(0, 1)>>
Dms2 == <<Rat(0, 1), Rat(0, 1), Rat(0, 1)>>
DmsShort == <<Rat(10, 1), Rat(30, 1)>>

\* The dictionaries under GPSInfo: each of the four sub-fields is missing,
\* empty or set (a latitude also with two elements instead of three).
Opt(key, vals) == {<<>>} \cup {key :> v : v \in vals}
GpsValues ==
  {a @@ b @@ c @@ d :
     a \in Opt(2, {<<>>, Dms1, DmsShort}), b \in Opt(1, {"", "N", "S"}),
     c \in Opt(4, {<<>>, Dms1, Dms2}), d \in Opt(3, {"", "E", "W"})}

TagIds == DOMAIN TAGS
ValuesOf(tag_id) ==
  IF TAGS_get(tag_id) = "GPSInfo" THEN GpsValues
  ELSE IF TAGS_get(tag_id) = "Make" THEN {Str(<<"x">>)}
  ELSE DateValues

----------------------------------------------------------------------------
(* File names *)

a_jpg == <<"a", ".", "j", "p", "g">>
B_PNG == <<"B", ".", "P", "N", "G">>
n_txt == <<"n", ".", "t", "x", "t">>

----------------------------------------------------------------------------
(* The states of the parts of the model a specification leaves alone *)

NoItem == [tag_id |-> 0, value |-> Str(<<>>)]
NoInput == [dms |-> Dms2, ref |-> "N"]

OrchIdle ==
  /\ runs = 0 /\ clock = 0 /\ pc = "idle" /\ listing = <<>> /\ idx = 0
  /\ metadata = <<>> /\ metadata_list = <<>> /\ error_log = <<>>
  /\ success_count = 0 /\ failure_count = 0 /\ fs = <<>> /\ calls = <<>>
ExIdle ==
  /\ ex_pc = "idle" /\ ex_seen = {} /\ ex_item = NoItem /\ ex_st = InitLocals
  /\ ex_out = None
DmsIdle == dms_in = NoInput /\ dms_out = None

----------------------------------------------------------------------------
(* SpecDms: one call of dms_to_decimal on arguments drawn from the bounds *)

InitDms ==
  /\ variant \in Variants
  /\ dms_in \in [dms : Degs \X Mins \X Secs, ref : Refs]
  /\ dms_out = None
  /\ OrchIdle /\ ExIdle

DmsCall ==
  /\ dms_out = None
  /\ dms_out' = Some(IF variant = "upload"
                     THEN dms_to_decimal(dms_in.dms, dms_in.ref)
                     ELSE dms_to_decimal_base(dms_in.dms, dms_in.ref))
  /\ UNCHANGED <<dms_in, orchVars, exVars>>

NextDms == DmsCall
SpecDms == InitDms /\ [][NextDms]_vars

----------------------------------------------------------------------------
(* SpecExtract: the extraction of one file, one loop iteration at a time. *)
(* The entries of the dictionary are drawn as the loop reaches them.       *)

ExFilename == a_jpg

\* What the file contributes to metadata_list: in the upload variant the
\* dictionary of the file after metadata.update(extracted_metadata), in the
\* base variant exif_dict, or nothing after an exception.
ExOutcomeExcept ==
  IF variant = "upload"
  THEN <<ExtractedMetadata(ExtractExcept(ExFilename), ExFilename)>>
  ELSE BaseExcept
ExOutcomeNoExif ==
  IF variant = "upload"
  THEN <<ExtractedMetadata(ExtractReturn(InitLocals, ExFilename), ExFilename)>>
  ELSE <<BaseNoExif(ExFilename)>>
ExOutcomeReturn(st) ==
  IF variant = "upload"
  THEN <<ExtractedMetadata(ExtractReturn(st, ExFilename), ExFilename)>>
  ELSE <<BaseRecord(st, ExFilename)>>

InitExtract ==
  /\ variant \in Variants
  /\ ex_pc = "open" /\ ex_seen = {} /\ ex_item = NoItem /\ ex_st = InitLocals
  /\ ex_out = None
  /\ runs = 0 /\ clock = 0 /\ pc = "idle" /\ listing = <<>> /\ idx = 0
  /\ metadata = <<>> /\ metadata_list = <<>> /\ error_log = <<>>
  /\ success_count = 0 /\ failure_count = 0 /\ fs = <<>> /\ calls = <<>>
  /\ DmsIdle

\* Image.open or _getexif raises.
ExOpenRaises ==
  /\ ex_pc = "open"
  /\ ex_pc' = "returned"
  /\ ex_out' = ExOutcomeExcept
  /\ UNCHANGED <<ex_seen, ex_item, ex_st, variant, dmsVars>>
  /\ UNCHANGED <<runs, clock, pc, listing, idx, metadata, metadata_list,
                 error_log, success_count, failure_count, fs, calls>>

\* _getexif returns None or an empty dictionary.
ExOpenNoExif ==
  /\ ex_pc = "open"
  /\ ex_pc' = "returned"
  /\ ex_out' = ExOutcomeNoExif
  /\ UNCHANGED <<ex_seen, ex_item, ex_st, variant, dmsVars>>
  /\ UNCHANGED <<runs, clock, pc, listing, idx, metadata, metadata_list,
                 error_log, success_count, failure_count, fs, calls>>

\* _getexif returns a dictionary with entries.
ExOpenExif ==
  /\ ex_pc = "open"
  /\ ex_pc' = "loop"
  /\ UNCHANGED <<ex_seen, ex_item, ex_st, ex_out, variant, dmsVars>>
  /\ UNCHANGED <<runs, clock, pc, listing, idx, metadata, metadata_list,
                 error_log, success_count, failure_count, fs, calls>>

\* One iteration of the loop over the entries.
ExTag ==
  /\ ex_pc = "loop"
  /\ Cardinality(ex_seen) < MaxTags
  /\ \E tag_id \in TagIds \ ex_seen : \E value \in ValuesOf(tag_id) :
       LET r == IF variant = "upload" THEN TagStep(ex_st, tag_id, value)
                ELSE TagStepBase(ex_st, tag_id, value)
       IN  /\ ex_item' = [tag_id |-> tag_id, value |-> value]
           /\ ex_seen' = ex_seen \cup {tag_id}
           /\ ex_st' = r.st
           /\ IF r.exc
              THEN ex_pc' = "returned" /\ ex_out' = ExOutcomeExcept
              ELSE ex_pc' = "loop" /\ ex_out' = ex_out
  /\ UNCHANGED <<variant, dmsVars>>
  /\ UNCHANGED <<runs, clock, pc, listing, idx, metadata, metadata_list,
                 error_log, success_count, failure_count, fs, calls>>

\* The dictionary has no more entries.
ExReturn ==
  /\ ex_pc = "loop"
  /\ ex_seen # {}
  /\ ex_pc' = "returned"
  /\ ex_out' = ExOutcomeReturn(ex_st)
  /\ UNCHANGED <<ex_seen, ex_item, ex_st, variant, dmsVars>>
  /\ UNCHANGED <<runs, clock, pc, listing, idx, metadata, metadata_list,
                 error_log, success_count, failure_count, fs, calls>>

NextExtract == ExOpenRaises \/ ExOpenNoExif \/ ExOpenExif \/ ExTag \/ ExReturn
SpecExtract == InitExtract /\ [][NextExtract]_vars

----------------------------------------------------------------------------
(* The folder walk: file name filter, upload, CSV and error log *)

LowerMap ==
  ("A" :> "a") @@ ("B" :> "b") @@ ("C" :> "c") @@ ("D" :> "d") @@ ("E" :> "e")
  @@ ("F" :> "f") @@ ("G" :> "g") @@ ("H" :> "h") @@ ("I" :> "i") @@ ("J" :> "j")
  @@ ("K" :> "k") @@ ("L" :> "l") @@ ("M" :> "m") @@ ("N" :> "n") @@ ("O" :> "o")
  @@ ("P" :> "p") @@ ("Q" :> "q") @@ ("R" :> "r") @@ ("S" :> "s") @@ ("T" :> "t")
  @@ ("U" :> "u") @@ ("V" :> "v") @@ ("W" :> "w") @@ ("X" :> "x") @@ ("Y" :> "y")
  @@ ("Z" :> "z")

\* str.lower() and str.endswith(tuple)
lower(s) == [i \in 1..Len(s) |-> IF s[i] \in DOMAIN LowerMap THEN LowerMap[s[i]] ELSE s[i]]
endswith(s, suffixes) ==
  \E suf \in suffixes :
    Len(suf) <= Len(s) /\ SubSeq(s, Len(s) - Len(suf) + 1, Len(s)) = suf

\* The filter of the upload variant, and of the base variant.
IsImageUpload(filename) ==
  endswith(lower(filename),
           {<<".", "j", "p", "g">>, <<".", "j", "p", "e", "g">>,
            <<".", "p", "n", "g">>, <<".", "g", "i", "f">>,
            <<".", "t", "i", "f", "f">>, <<".", "t", "i", "f">>})
IsImageBase(filename) ==
  endswith(lower(filename),
           {<<".", "j", "p", "g">>, <<".", "j", "p", "e", "g">>,
            <<".", "t", "i", "f", "f">>, <<".", "t", "i", "f">>})

\* The names a folder may hold, and what os.listdir may return: any names
\* in any order, none twice.
FileNames == {a_jpg, B_PNG, n_txt}
Listings ==
  UNION {{l \in [1..k -> FileNames] : \A i, j \in 1..k : i # j => l[i] # l[j]} :
         k \in 0..MaxEntries}

\* The image files the walk may meet.
GpsFull == (2 :> Dms1) @@ (1 :> "S") @@ (4 :> Dms1) @@ (3 :> "E")
ImgRaises == [raises |-> TRUE, exif |-> <<>>]
ImgNoExif == [raises |-> FALSE, exif |-> <<>>]
ImgFull == [raises |-> FALSE,
            exif |-> <<[tag_id |-> 34853, value |-> GpsFull],
                       [tag_id |-> 306, value |-> Str(GoodStamp)]>>]
ImgBytes == [raises |-> FALSE,
             exif |-> <<[tag_id |-> 36867, value |-> Bytes(GoodStamp)]>>]
Images == {ImgRaises, ImgNoExif, ImgFull, ImgBytes}

\* Whether the extraction of the image meets an exception.
ExtractionRaises(image) == image.raises \/ RunTags(Continues(InitLocals), image.exif, 1).exc
ExtractionRaisesBase(image) == image.raises \/ RunTagsBase(Continues(InitLocals), image.exif, 1).exc

bucket_name == "your-bucket-name"
public_url(filename) == <<"https://storage.googleapis.com/", bucket_name, "/">> \o filename

\* The entry of the error log for a failed upload: (timestamp, message).
UploadError(filename) ==
  [timestamp |-> clock,
   message |-> <<"Error uploading ">> \o filename \o <<" to GCS: ", "e">>]

\* csv.DictWriter: the header, then one row per dictionary, a missing key or
\* None giving an empty cell.
FieldNamesUpload == <<"Filename", "Latitude", "Longitude", "Date", "Time", "ImageURL">>
FieldNamesBase == <<"Filename", "Latitude", "Longitude", "Date", "Time">>
CsvCell(data, key) ==
  IF key \notin DOMAIN data THEN <<>>
  ELSE IF key = "Filename" THEN data[key]
  ELSE IF Len(data[key]) = 0 THEN <<>> ELSE <<data[key][1]>>
CsvRow(data, fieldnames) == [i \in 1..Len(fieldnames) |-> CsvCell(data, fieldnames[i])]
CsvText(list, fieldnames) ==
  <<fieldnames>> \o [i \in 1..Len(list) |-> CsvRow(list[i], fieldnames)]

\* open(name, 'w') ... : the file holds exactly what is written.
WriteFile(files, name, text) == (name :> text) @@ files

\* The lines of error_log.txt
LogLine(entry) == <<"[", entry.timestamp, "] ">> \o entry.message \o <<"\n">>
LogText(log) == [i \in 1..Len(log) |-> LogLine(log[i])]

\* log_errors opening the file for append.
log_errors_bug(files, log) ==
  IF log # <<>>
  THEN WriteFile(files, "error_log.txt",
                 (IF "error_log.txt" \in DOMAIN files THEN files["error_log.txt"] ELSE <<>>)
                 \o LogText(log))
  ELSE files

\* log_errors(error_log): the file is written only if the log is not empty.
log_errors(files, log) ==
  IF log # <<>> THEN WriteFile(files, "error_log.txt", LogText(log)) ELSE files

\* The end of upload_images_to_gcs_with_metadata: the CSV, written only if
\* metadata_list is not empty, then log_errors.
UploadOutput(files, list, log) ==
  LET files1 == IF list # <<>>
                THEN WriteFile(files, "gcs_image_metadata_with_links.csv",
                               CsvText(list, FieldNamesUpload))
                ELSE files
  IN  log_errors(files1, log)

\* The end of extract_metadata: the CSV is always written.
BaseOutput(files, list) ==
  WriteFile(files, "image_metadata.csv", CsvText(list, FieldNamesBase))

----------------------------------------------------------------------------
(* Spec: one of the scripts, run MaxRuns times in the same working directory *)

Init ==
  /\ variant \in Variants
  /\ runs = 0 /\ clock = 0 /\ pc = "idle" /\ listing = <<>> /\ idx = 0
  /\ metadata = <<>> /\ metadata_list = <<>> /\ error_log = <<>>
  /\ success_count = 0 /\ failure_count = 0 /\ fs = <<>> /\ calls = <<>>
  /\ ExIdle /\ DmsIdle

AtRest == pc \in {"idle", "done", "nofolder"}
filename == listing[idx + 1]

\* __main__ of either script, the folder path not naming a directory: a
\* message, and nothing else.
MainNoFolder ==
  /\ AtRest /\ runs < MaxRuns
  /\ runs' = runs + 1 /\ clock' = clock + 1
  /\ pc' = "nofolder"
  /\ listing' = <<>> /\ idx' = 0 /\ metadata' = <<>> /\ metadata_list' = <<>>
  /\ error_log' = <<>> /\ success_count' = 0 /\ failure_count' = 0
  /\ calls' = <<>>
  /\ UNCHANGED <<variant, fs, exVars, dmsVars>>

\* __main__ of either script, the folder path naming a directory: the
\* function starts with empty lists and counters and lists the folder.
MainRun ==
  /\ AtRest /\ runs < MaxRuns
  /\ runs' = runs + 1 /\ clock' = clock + 1
  /\ pc' = "loop"
  /\ listing' \in Listings
  /\ idx' = 0 /\ metadata' = <<>> /\ metadata_list' = <<>>
  /\ error_log' = <<>> /\ success_count' = 0 /\ failure_count' = 0
  /\ calls' = <<>>
  /\ UNCHANGED <<variant, fs, exVars, dmsVars>>

\* Upload variant: an entry the filter rejects.
UploadSkip ==
  /\ variant = "upload" /\ pc = "loop" /\ idx < Len(listing)
  /\ ~IsImageUpload(filename)
  /\ idx' = idx + 1
  /\ UNCHANGED <<variant, runs, clock, pc, listing, metadata, metadata_list,
                 error_log, success_count, failure_count, fs, calls,
                 exVars, dmsVars>>

\* UploadExtract going to the next file, without the upload step, when the
\* extraction met an exception.
UploadExtract_bug ==
  /\ variant = "upload" /\ pc = "loop" /\ idx < Len(listing)
  /\ IsImageUpload(filename)
  /\ \E image \in Images :
       /\ metadata' = ExtractedMetadata(extract_image_metadata(image, filename),
                                        filename)
       /\ calls' = Append(calls, [op |-> "extract", file |-> filename,
                                  ok |-> ~ExtractionRaises(image)])
       /\ IF ExtractionRaises(image)
          THEN /\ metadata_list' = Append(metadata_list, metadata')
               /\ idx' = idx + 1 /\ pc' = "loop"
          ELSE /\ pc' = "upload"
               /\ UNCHANGED <<idx, metadata_list>>
  /\ UNCHANGED <<variant, runs, clock, listing, error_log,
                 success_count, failure_count, fs, exVars, dmsVars>>

\* Upload variant: the extraction step of a matched file.
\* extract_image_metadata catches every Exception itself, so the except
\* clause around the call (which would log the error) is never entered.
UploadExtract ==
  /\ variant = "upload" /\ pc = "loop" /\ idx < Len(listing)
  /\ IsImageUpload(filename)
  /\ \E image \in Images :
       /\ metadata' = ExtractedMetadata(extract_image_metadata(image, filename),
                                        filename)
       /\ calls' = Append(calls, [op |-> "extract", file |-> filename,
                                  ok |-> ~ExtractionRaises(image)])
  /\ pc' = "upload"
  /\ UNCHANGED <<variant, runs, clock, listing, idx, metadata_list, error_log,
                 success_count, failure_count, fs, exVars, dmsVars>>

\* UploadUpload leaving the loop body on a failed upload before the append
\* to metadata_list.
UploadUpload_bug ==
  /\ variant = "upload" /\ pc = "upload"
  /\ \E ok \in BOOLEAN :
       /\ calls' = Append(calls, [op |-> "upload", file |-> filename, ok |-> ok])
       /\ IF ok
          THEN /\ metadata' = [metadata EXCEPT !.ImageURL = Some(public_url(filename))]
               /\ success_count' = success_count + 1
               /\ metadata_list' = Append(metadata_list, metadata')
               /\ UNCHANGED <<error_log, failure_count>>
          ELSE /\ error_log' = Append(error_log, UploadError(filename))
               /\ failure_count' = failure_count + 1
               /\ UNCHANGED <<metadata, success_count, metadata_list>>
  /\ idx' = idx + 1
  /\ pc' = "loop"
  /\ UNCHANGED <<variant, runs, clock, listing, fs, exVars, dmsVars>>

\* Upload variant: the upload step of the file, which succeeds or raises,
\* and the append of the file's dictionary to metadata_list.
UploadUpload ==
  /\ variant = "upload" /\ pc = "upload"
  /\ \E ok \in BOOLEAN :
       /\ calls' = Append(calls, [op |-> "upload", file |-> filename, ok |-> ok])
       /\ IF ok
          THEN /\ metadata' = [metadata EXCEPT !.ImageURL = Some(public_url(filename))]
               /\ success_count' = success_count + 1
               /\ UNCHANGED <<error_log, failure_count>>
          ELSE /\ error_log' = Append(error_log, UploadError(filename))
               /\ failure_count' = failure_count + 1
               /\ UNCHANGED <<metadata, success_count>>
  /\ metadata_list' = Append(metadata_list, metadata')
  /\ idx' = idx + 1
  /\ pc' = "loop"
  /\ UNCHANGED <<variant, runs, clock, listing, fs, exVars, dmsVars>>

\* Upload variant: after the loop, the CSV, the error log and the summary.
UploadFinish ==
  /\ variant = "upload" /\ pc = "loop" /\ idx = Len(listing)
  /\ fs' = UploadOutput(fs, metadata_list, error_log)
  /\ pc' = "done"
  /\ UNCHANGED <<variant, runs, clock, listing, idx, metadata, metadata_list,
                 error_log, success_count, failure_count, calls, exVars, dmsVars>>

\* Base variant: an entry the filter rejects.
BaseSkip ==
  /\ variant = "base" /\ pc = "loop" /\ idx < Len(listing)
  /\ ~IsImageBase(filename)
  /\ idx' = idx + 1
  /\ UNCHANGED <<variant, runs, clock, pc, listing, metadata, metadata_list,
                 error_log, success_count, failure_count, fs, calls,
                 exVars, dmsVars>>

\* Base variant: a matched file: the try block of the loop body.
BaseProcess ==
  /\ variant = "base" /\ pc = "loop" /\ idx < Len(listing)
  /\ IsImageBase(filename)
  /\ \E image \in Images :
       /\ metadata_list' = metadata_list \o extract_metadata_file(image, filename)
       /\ calls' = Append(calls, [op |-> "extract", file |-> filename,
                                  ok |-> ~ExtractionRaisesBase(image)])
  /\ idx' = idx + 1
  /\ UNCHANGED <<variant, runs, clock, pc, listing, metadata, error_log,
                 success_count, failure_count, fs, exVars, dmsVars>>

\* Base variant: after the loop, the CSV.
BaseFinish ==
  /\ variant = "base" /\ pc = "loop" /\ idx = Len(listing)
  /\ fs' = BaseOutput(fs, metadata_list)
  /\ pc' = "done"
  /\ UNCHANGED <<variant, runs, clock, listing, idx, metadata, metadata_list,
                 error_log, success_count, failure_count, calls, exVars, dmsVars>>

Next ==
  \/ MainNoFolder \/ MainRun
  \/ UploadSkip \/ UploadExtract \/ UploadUpload \/ UploadFinish
  \/ BaseSkip \/ BaseProcess \/ BaseFinish

Spec == Init /\ [][Next]_vars

----------------------------------------------------------------------------
(* Properties of dms_to_decimal (SpecDms) *)

\* C8: for every triple (deg, min, sec) of non-negative numbers and every
\* reference in {N, S, E, W}, dms_to_decimal returns deg + min/60 + sec/3600
\* for N and E and the negation of that sum for S and W, minutes and seconds
\* of 60 or more included; (10, 30, 0) gives 10.5 with N and -10.5 with S.
\* The sum is stated over the common denominator 3600 * D.
C8_DmsToDecimal ==
  Len(dms_out) = 1 =>
    LET deg == dms_in.dms[1]
        min == dms_in.dms[2]
        sec == dms_in.dms[3]
        D == deg.d * min.d * sec.d
        N == 3600 * deg.n * min.d * sec.d + 60 * min.n * deg.d * sec.d
             + sec.n * deg.d * min.d
        sign == IF dms_in.ref \in {"N", "E"} THEN 1 ELSE -1
        out == dms_out[1]
    IN  /\ ~out.exc
        /\ out.val.d > 0
        /\ out.val.n * (3600 * D) = sign * N * out.val.d
        /\ (dms_in.dms = Dms1 /\ dms_in.ref = "N" => out.val = [n |-> 21, d |-> 2])
        /\ (dms_in.dms = Dms1 /\ dms_in.ref = "S" => out.val = [n |-> -21, d |-> 2])

\* The conversion of (10, 30, 0) with S has returned -10.5.
C8_Witness ==
  /\ dms_in.dms = Dms1 /\ dms_in.ref = "S"
  /\ Len(dms_out) = 1 /\ dms_out[1].val = [n |-> -21, d |-> 2]

----------------------------------------------------------------------------
(* Properties of the extraction of one file (SpecExtract) *)

DateTagIds == {tag_id \in TagIds :
                 TAGS[tag_id] \in {"DateTime", "DateTimeOriginal", "DateTimeDigitized"}}
GpsTagIds == {tag_id \in TagIds : TAGS[tag_id] = "GPSInfo"}

\* The sub-field is present in the decoded GPS dictionary and not empty.
HasCoord(gps_info, name) == name \in DOMAIN gps_info /\ Len(gps_info[name]) > 0
HasRef(gps_info, name) == name \in DOMAIN gps_info /\ gps_info[name] # ""
AllFour(gps_info) ==
  /\ HasCoord(gps_info, "GPSLatitude") /\ HasRef(gps_info, "GPSLatitudeRef")
  /\ HasCoord(gps_info, "GPSLongitude") /\ HasRef(gps_info, "GPSLongitudeRef")

\* C7: for a tag dictionary that has a GPSInfo entry, latitude and longitude
\* are computed only when the four sub-fields GPSLatitude, GPSLatitudeRef,
\* GPSLongitude and GPSLongitudeRef are all present and non-empty: whenever
\* one of them is missing or empty, the latitude and the longitude of the
\* locals, and of the record of the file, are both absent.
C7_GpsNeedsAllFour ==
  (ex_seen \cap GpsTagIds # {} /\ ~AllFour(ex_st.gps_info)) =>
     /\ ex_st.latitude = None /\ ex_st.longitude = None
     /\ \A i \in DOMAIN ex_out :
          ex_out[i].Latitude = None /\ ex_out[i].Longitude = None

\* A record was returned for a dictionary whose GPSInfo has a latitude, a
\* latitude reference and a longitude, and no longitude reference.
C7_Witness ==
  /\ ex_pc = "returned" /\ Len(ex_out) = 1
  /\ ex_seen \cap GpsTagIds # {}
  /\ HasCoord(ex_st.gps_info, "GPSLatitude") /\ Len(ex_st.gps_info["GPSLatitude"]) = 3
  /\ HasRef(ex_st.gps_info, "GPSLatitudeRef")
  /\ HasCoord(ex_st.gps_info, "GPSLongitude")
  /\ "GPSLongitudeRef" \notin DOMAIN ex_st.gps_info
  /\ ex_out[1].Latitude = None

\* C9: date and time are present or absent together, in the locals after
\* any sequence of date/time tags and in every record produced.
C9_DateTimeLockstep ==
  /\ (Len(ex_st.date) = 0) <=> (Len(ex_st.time_value) = 0)
  /\ \A i \in DOMAIN ex_out : (Len(ex_out[i].Date) = 0) <=> (Len(ex_out[i].Time) = 0)

\* The value of the last date/time tag of two or more did not parse, and
\* the record returned has neither date nor time.
C9_Witness ==
  /\ ex_pc = "returned" /\ Len(ex_out) = 1
  /\ Cardinality(ex_seen \cap DateTagIds) >= 2
  /\ ex_item.tag_id \in DateTagIds
  /\ ex_item.value = Str(BadDay)
  /\ Len(ex_out[1].Date) = 0 /\ Len(ex_out[1].Time) = 0

\* C6: a date/time tag whose value fails to parse never overwrites the date
\* and time obtained from an earlier tag that parsed: in an iteration on a
\* date/time tag whose value strptime rejects, a date and time that were
\* present stay present.
C6_FailedParseKeepsDate ==
  [][(/\ ex_seen' # ex_seen
      /\ ex_item'.tag_id \in DateTagIds
      /\ ex_item'.value.isstr /\ ~strptime(ex_item'.value.chars).ok
      /\ Len(ex_st.date) = 1 /\ Len(ex_st.time_value) = 1)
     => (Len(ex_st'.date) = 1 /\ Len(ex_st'.time_value) = 1)]_vars

----------------------------------------------------------------------------
(* Properties of the runs of a script (Spec) *)

CsvName == IF variant = "upload" THEN "gcs_image_metadata_with_links.csv"
           ELSE "image_metadata.csv"
FieldNames == IF variant = "upload" THEN FieldNamesUpload ELSE FieldNamesBase

\* The entries of the listing whose name ends, whatever the case of its
\* letters, in one of the extensions of the variant.
HasExtension(name, ext) ==
  /\ Len(name) >= Len(ext)
  /\ \A i \in 1..Len(ext) :
       name[Len(name) - Len(ext) + i] \in {ext[i]} \cup {c \in DOMAIN LowerMap : LowerMap[c] = ext[i]}
Extensions ==
  {<<".", "j", "p", "g">>, <<".", "j", "p", "e", "g">>,
   <<".", "t", "i", "f", "f">>, <<".", "t", "i", "f">>}
  \cup (IF variant = "upload" THEN {<<".", "p", "n", "g">>, <<".", "g", "i", "f">>} ELSE {})
IsMatch(name) == \E ext \in Extensions : HasExtension(name, ext)
Matched == SelectSeq(listing, IsMatch)

\* The outcome of the upload of the file, as the run met it.
UploadFailed(name) ==
  \E i \in DOMAIN calls : calls[i] = [op |-> "upload", file |-> name, ok |-> FALSE]
UploadsOk == {i \in DOMAIN calls : calls[i].op = "upload" /\ calls[i].ok}
UploadsFailed == {i \in DOMAIN calls : calls[i].op = "upload" /\ ~calls[i].ok}
UploadErrorsOf(name) ==
  {j \in DOMAIN error_log :
     error_log[j].message = <<"Error uploading ">> \o name \o <<" to GCS: ", "e">>}

\* C1: in both variants the list of records written to the CSV holds exactly
\* one record for each directory entry matching the extension filter, in
\* the order of the listing, and none for any other entry, whatever the
\* outcome of extraction and upload for each file.
C1_RowPerMatchedFile ==
  pc = "done" =>
    /\ Len(metadata_list) = Len(Matched)
    /\ \A i \in DOMAIN metadata_list : metadata_list[i].Filename = Matched[i]

\* C2: in the upload variant a run ends with one CSV row per matched file,
\* ImageURL empty exactly on the rows of the files whose upload failed and
\* https://storage.googleapis.com/<bucket>/<filename> on the others, one
\* error-log entry per failed upload, success_count the number of successful
\* uploads, failure_count the number of failed ones, and their sum the
\* number of matched files.
C2_UploadFailureIsolated ==
  (pc = "done" /\ variant = "upload") =>
    /\ Len(metadata_list) = Len(Matched)
    /\ Matched # <<>> =>
         /\ CsvName \in DOMAIN fs
         /\ Len(fs[CsvName]) = Len(Matched) + 1
         /\ \A i \in DOMAIN Matched :
              /\ fs[CsvName][i + 1][1] = Matched[i]
              /\ fs[CsvName][i + 1][6] =
                   IF UploadFailed(Matched[i]) THEN <<>>
                   ELSE << <<"https://storage.googleapis.com/", "your-bucket-name", "/">>
                           \o Matched[i] >>
    /\ \A i \in DOMAIN Matched :
         /\ metadata_list[i].Filename = Matched[i]
         /\ (metadata_list[i].ImageURL = None) <=> UploadFailed(Matched[i])
         /\ Cardinality(UploadErrorsOf(Matched[i])) =
              IF UploadFailed(Matched[i]) THEN 1 ELSE 0
    /\ success_count = Cardinality(UploadsOk)
    /\ failure_count = Cardinality(UploadsFailed)
    /\ success_count + failure_count = Len(Matched)

\* A run over two matched files has ended, the upload of the first having
\* failed and the upload of the second having succeeded.
C2_Witness ==
  /\ pc = "done" /\ variant = "upload"
  /\ Len(Matched) = 2
  /\ UploadFailed(Matched[1]) /\ ~UploadFailed(Matched[2])
  /\ success_count = 1 /\ failure_count = 1
  /\ Len(error_log) = 1
  /\ Len(fs[CsvName]) = 3

\* C3: in the upload variant the error log a run collected holds an entry
\* for every extraction that met an exception.
C3_ExtractionFailureLogged ==
  (pc = "done" /\ variant = "upload") =>
    \A i \in DOMAIN calls :
      (calls[i].op = "extract" /\ ~calls[i].ok) =>
        \E j \in DOMAIN error_log :
          error_log[j].message =
            <<"Error extracting metadata from ">> \o calls[i].file \o <<": ", "e">>

\* C4: after every run that passes the folder check, in both variants, the
\* output CSV holds exactly the header and the rows of that run, no row
\* surviving from an earlier run.
C4_CsvFresh ==
  (pc = "done" /\ CsvName \in DOMAIN fs) =>
    fs[CsvName] = CsvText(metadata_list, FieldNames)

\* The entries of error_log.txt, and whether they all come from the current
\* run: the clock of a run is the timestamp of every entry it logs.
LogFile(files) == IF "error_log.txt" \in DOMAIN files THEN files["error_log.txt"] ELSE <<>>
AllOfThisRun(lines) == \A i \in DOMAIN lines : lines[i][2] = clock

\* C5 as claimed: after any run of the upload variant error_log.txt holds no
\* entry from a previous run.
C5_LogFresh ==
  (pc = "done" /\ variant = "upload") => AllOfThisRun(LogFile(fs))

\* C5 as amended: the step ending a run of the upload variant writes
\* error_log.txt only if the run logged an error; the file then holds one
\* line per entry of that run and no line of a previous run; otherwise the
\* file is left as it was.
C5_LogOverwrittenOnError ==
  [][(variant = "upload" /\ pc = "loop" /\ pc' = "done") =>
       IF error_log # <<>>
       THEN /\ Len(LogFile(fs')) = Len(error_log)
            /\ \A i \in DOMAIN error_log :
                 /\ LogFile(fs')[i][2] = clock
                 /\ SubSeq(LogFile(fs')[i], 4, 3 + Len(error_log[i].message))
                      = error_log[i].message
       ELSE LogFile(fs') = LogFile(fs)]_vars

\* A second run that logged an error has ended, and error_log.txt holds
\* the entries of that run alone.
C5_Witness ==
  /\ pc = "done" /\ variant = "upload" /\ runs = 2
  /\ error_log # <<>>
  /\ Len(LogFile(fs)) = Len(error_log)
  /\ AllOfThisRun(LogFile(fs))

\* C10: in the upload variant the calls of a run are, for the matched files
\* in the order of the listing, the extraction of the file and then its
\* upload: the extraction of a file ends before its upload starts, the
\* upload ends before the extraction of the next file starts, and the upload
\* is attempted exactly once per matched file, whatever the outcome of the
\* extraction or of the upload.
C10_Sequential ==
  variant = "upload" =>
    /\ Len(calls) <= 2 * Len(Matched)
    /\ \A i \in DOMAIN calls :
         /\ calls[i].op = (IF i % 2 = 1 THEN "extract" ELSE "upload")
         /\ calls[i].file = Matched[(i + 1) \div 2]
    /\ pc = "upload" <=> Len(calls) % 2 = 1
    /\ pc = "done" => Len(calls) = 2 * Len(Matched)

\* A run over two matched files has ended; the extraction and the upload of
\* the first file both failed.
C10_Witness ==
  /\ variant = "upload" /\ pc = "done"
  /\ Len(Matched) = 2 /\ Len(calls) = 4
  /\ ~calls[1].ok /\ ~calls[2].ok

====
